---- MODULE Spec2Model ----
(***************************************************************************)
(* A model of clevo-indicator.c: the automatic fan-duty controller         *)
(* (ec_auto_duty_adjust), the worker loop that shares share_info with the  *)
(* indicator process (main_ec_worker, ui_command_set_fan), and the EC port *)
(* transport (ec_write_fan_duty, ec_io_do, ec_io_read, ec_io_wait).        *)
(*                                                                         *)
(* The specifications share the variables:                                 *)
(*   AdjustSpec  the controller as a function of the published readings;   *)
(*   Spec        the worker loop interleaved with the indicator process,   *)
(*               FairSpec the same with the worker process scheduled;      *)
(*   EcSpec      the port handshakes against an arbitrary controller.      *)
(***************************************************************************)
EXTENDS Integers, Sequences, FiniteSets

VARIABLES
    \* share_info (lines 129-140)
    exit, cpu_temp, gpu_temp, fan_duty, fan_rpms,
    auto_duty, auto_duty_val, manual_next_fan_duty, manual_prev_fan_duty,
    \* main_ec_worker: position and locals
    wpc, new_fan_duty, next_duty,
    \* what the current worker cycle saw and did (observation of the run)
    cyc,
    \* the indicator process: position inside ui_command_set_fan and its argument
    ui_pc, ui_arg,
    \* the last fan-duty write handshake issued by the worker
    hw_log,
    \* the controller driver of AdjustSpec: position, the number of calls since
    \* a returned duty was applied with the temperature unchanged, progress
    \* along the sample scenario
    apc, settled, scn,
    \* the port transport: running operation, position, ec_io_wait's locals,
    \* the EC status flags, the port writes issued, the polls taken
    e_op, e_pc, e_step, e_i, e_data, ibf, obf, outs, polls, e_ret, e_result,
    \* the conversion under examination in ConvSpec: its arguments and results
    conv

shareVars == <<exit, cpu_temp, gpu_temp, fan_duty, fan_rpms, auto_duty,
               auto_duty_val, manual_next_fan_duty, manual_prev_fan_duty>>
workerVars == <<wpc, new_fan_duty, next_duty, cyc, hw_log>>
uiVars == <<ui_pc, ui_arg>>
adjVars == <<apc, settled, scn>>
ecVars == <<e_op, e_pc, e_step, e_i, e_data, ibf, obf, outs, polls, e_ret,
            e_result>>
convVars == <<conv>>
vars == <<shareVars, workerVars, uiVars, adjVars, ecVars, convVars>>

EXIT_SUCCESS == 0
EXIT_FAILURE == 1

EC_SC == 102
EC_DATA == 98
IBF == 1
OBF == 0
EC_SC_READ_CMD == 128
EC_REG_CPU_TEMP == 7
EC_REG_FAN_DUTY == 206
\* ec_io_wait's bound on i (line 519)
WaitLimit == 100

(***************************************************************************)
(* Bounds of the model.                                                    *)
(***************************************************************************)
MinTemp == 25
MaxTemp == 90
MinDuty == 45
MaxRepeat == 3
MinArg == 57
MaxArg == 103

Temps == MinTemp..MaxTemp
GpuTemps == {0, 30, 55, 65, 75, 86}
Duties == MinDuty..100

MAX(a, b) == IF a > b THEN a ELSE b

(***************************************************************************)
(* The port transport.  An operation is the list of its port steps, as     *)
(* ec_io_do and ec_io_read issue them; ec_io_wait runs poll by poll.       *)
(***************************************************************************)
NoOp == [fn |-> "none", arg |-> 0, steps |-> <<>>]

Wait(flag, value) == [kind |-> "wait", flag |-> flag, value |-> value]
Outb(value, port) == [kind |-> "outb", value |-> value, port |-> port]
Inb(port) == [kind |-> "inb", port |-> port]

\* ec_io_do (lines 548-561)
ec_io_do(cmd, port, value) ==
    << Wait(IBF, 0), Outb(cmd, EC_SC),
       Wait(IBF, 0), Outb(port, EC_DATA),
       Wait(IBF, 0), Outb(value, EC_DATA),
       Wait(IBF, 0) >>

\* ec_io_read (lines 533-546)
ec_io_read(port) ==
    << Wait(IBF, 0), Outb(EC_SC_READ_CMD, EC_SC),
       Wait(IBF, 0), Outb(port, EC_DATA),
       Wait(OBF, 1), Inb(EC_DATA) >>

\* A range test that also turns 60 away (variant of DutyAccepted).
DutyAcceptedAbove60(duty_percentage) ==
    ~(duty_percentage <= 60 \/ duty_percentage > 100)

\* ec_write_fan_duty (lines 502-512): the range test, and the byte written,
\* (int) ((double) duty_percentage / 100.0 * 255.0), which is the floor of
\* duty_percentage * 255 / 100 for every duty in range.
DutyAccepted(duty_percentage) ==
    ~(duty_percentage < 60 \/ duty_percentage > 100)

DutyRaw(duty_percentage) == (duty_percentage * 255) \div 100

ec_write_fan_duty(duty_percentage) ==
    IF DutyAccepted(duty_percentage)
    THEN ec_io_do(153, 1, DutyRaw(duty_percentage))
    ELSE <<>>

\* A conversion that rounds to the nearest percent (variant of
\* calculate_fan_duty).
DutyRounded(raw_duty) == (raw_duty * 100 + 127) \div 255

\* calculate_fan_duty (lines 563-566): (int) ((double) raw_duty / 255.0 * 100.0),
\* which is the floor of raw_duty * 100 / 255 for every byte.
calculate_fan_duty(raw_duty) == (raw_duty * 100) \div 255

\* A conversion that takes the low byte first (variant of calculate_fan_rpms).
RpmsLowByteFirst(raw_rpm_high, raw_rpm_low) ==
    LET raw_rpm == raw_rpm_low * 256 + raw_rpm_high
    IN  IF raw_rpm > 0 THEN 2156220 \div raw_rpm ELSE 0

\* A conversion that rounds the quotient up (variant of calculate_fan_rpms).
RpmsRoundedUp(raw_rpm_high, raw_rpm_low) ==
    LET raw_rpm == raw_rpm_high * 256 + raw_rpm_low
    IN  IF raw_rpm > 0 THEN (2156220 + raw_rpm - 1) \div raw_rpm ELSE 0

\* calculate_fan_rpms (lines 568-572)
calculate_fan_rpms(raw_rpm_high, raw_rpm_low) ==
    LET raw_rpm == raw_rpm_high * 256 + raw_rpm_low
    IN  IF raw_rpm > 0 THEN 2156220 \div raw_rpm ELSE 0

\* The worker's record of a write: none yet, or the duty whose handshake
\* (the outb steps of ec_write_fan_duty) was issued last, and by which path.
NoWrite == [by |-> "none", duty |-> 0, raw |-> 0]
\* What one worker cycle saw and did; NoCycle outside the loop body.
NoCycle == [pre |-> FALSE, mhw |-> 0, acall |-> 0, ahw |-> 0, mode |-> -1,
            adv0 |-> 0, len |-> 0,
            buf |-> [cpu |-> 0, gpu |-> 0, duty |-> 0, rpm_hi |-> 0, rpm_lo |-> 0]]

\* No conversion under examination.
NoConv == [job |-> "none", pc |-> "off", a |-> 0, b |-> 0, out |-> 0, nxt |-> 0]

\* The byte inb(EC_SC) returns: OBF is bit 0, IBF bit 1 of the status.
Status == obf + 2 * ibf
Bit(data, flag) == (data \div (2 ^ flag)) % 2

(***************************************************************************)
(* Variants of ec_auto_duty_adjust, each with one plausible slip: stage    *)
(* thresholds exclusive; the release clause without its temp <= T+5 bound; *)
(* the release clause with duty >= D; no release clause at all.            *)
(***************************************************************************)
AdjustExclusive ==
    LET temp == MAX(cpu_temp, gpu_temp)
        duty == fan_duty
    IN  IF temp > 80 /\ duty < 100 THEN 100
        ELSE IF temp > 70 /\ (duty < 90 \/ (temp <= 75 /\ duty > 90)) THEN 90
        ELSE IF temp > 60 /\ (duty < 80 \/ (temp <= 65 /\ duty > 80)) THEN 80
        ELSE IF temp > 50 /\ (duty < 70 \/ (temp <= 55 /\ duty > 70)) THEN 70
        ELSE IF temp > 40 /\ (duty < 60 \/ (temp <= 45 /\ duty > 60)) THEN 60
        ELSE IF temp > 30 /\ (duty < 50 \/ (temp <= 35 /\ duty > 50)) THEN 50
        ELSE 0

AdjustReleaseUnbounded ==
    LET temp == MAX(cpu_temp, gpu_temp)
        duty == fan_duty
    IN  IF temp >= 80 /\ duty < 100 THEN 100
        ELSE IF temp >= 70 /\ (duty < 90 \/ duty > 90) THEN 90
        ELSE IF temp >= 60 /\ (duty < 80 \/ duty > 80) THEN 80
        ELSE IF temp >= 50 /\ (duty < 70 \/ duty > 70) THEN 70
        ELSE IF temp >= 40 /\ (duty < 60 \/ duty > 60) THEN 60
        ELSE IF temp >= 30 /\ (duty < 50 \/ duty > 50) THEN 50
        ELSE 0

AdjustReleaseInclusive ==
    LET temp == MAX(cpu_temp, gpu_temp)
        duty == fan_duty
    IN  IF temp >= 80 /\ duty < 100 THEN 100
        ELSE IF temp >= 70 /\ (duty < 90 \/ (temp <= 75 /\ duty >= 90)) THEN 90
        ELSE IF temp >= 60 /\ (duty < 80 \/ (temp <= 65 /\ duty >= 80)) THEN 80
        ELSE IF temp >= 50 /\ (duty < 70 \/ (temp <= 55 /\ duty >= 70)) THEN 70
        ELSE IF temp >= 40 /\ (duty < 60 \/ (temp <= 45 /\ duty >= 60)) THEN 60
        ELSE IF temp >= 30 /\ (duty < 50 \/ (temp <= 35 /\ duty >= 50)) THEN 50
        ELSE 0

AdjustNoRelease ==
    LET temp == MAX(cpu_temp, gpu_temp)
        duty == fan_duty
    IN  IF temp >= 80 /\ duty < 100 THEN 100
        ELSE IF temp >= 70 /\ duty < 90 THEN 90
        ELSE IF temp >= 60 /\ duty < 80 THEN 80
        ELSE IF temp >= 50 /\ duty < 70 THEN 70
        ELSE IF temp >= 40 /\ duty < 60 THEN 60
        ELSE IF temp >= 30 /\ duty < 50 THEN 50
        ELSE 0

(***************************************************************************)
(* ec_auto_duty_adjust (lines 458-477): reads share_info->cpu_temp,        *)
(* gpu_temp and fan_duty; returns the new duty, or 0 for "no change".      *)
(***************************************************************************)
ec_auto_duty_adjust ==
    LET temp == MAX(cpu_temp, gpu_temp)
        duty == fan_duty
    IN  IF temp >= 80 /\ duty < 100 THEN 100
        ELSE IF temp >= 70 /\ (duty < 90 \/ (temp <= 75 /\ duty > 90)) THEN 90
        ELSE IF temp >= 60 /\ (duty < 80 \/ (temp <= 65 /\ duty > 80)) THEN 80
        ELSE IF temp >= 50 /\ (duty < 70 \/ (temp <= 55 /\ duty > 70)) THEN 70
        ELSE IF temp >= 40 /\ (duty < 60 \/ (temp <= 45 /\ duty > 60)) THEN 60
        ELSE IF temp >= 30 /\ (duty < 50 \/ (temp <= 35 /\ duty > 50)) THEN 50
        ELSE 0

(***************************************************************************)
(* AdjustSpec: the controller driven over every reading.  A sample sets    *)
(* the temperatures, a call evaluates ec_auto_duty_adjust on the published *)
(* readings, and the fan follows the returned duty (the returned duty is   *)
(* the next current duty).                                                 *)
(***************************************************************************)
Scenario == <<30, 65, 75, 65, 55>>

ScnNext(t) ==
    IF scn < Len(Scenario) /\ t = Scenario[scn + 1] /\ (scn > 0 \/ fan_duty = 50)
    THEN scn + 1
    ELSE IF t = Scenario[1] /\ fan_duty = 50 THEN 1 ELSE 0

AdjIdle ==
    /\ exit = 0 /\ fan_rpms = 0 /\ auto_duty = 1 /\ auto_duty_val = 0
    /\ manual_next_fan_duty = 0 /\ manual_prev_fan_duty = 0
    /\ wpc = "off" /\ new_fan_duty = 0 /\ cyc = NoCycle
    /\ ui_pc = "off" /\ ui_arg = 0 /\ hw_log = NoWrite /\ conv = NoConv
    /\ e_op = NoOp /\ e_pc = "off" /\ e_step = 0 /\ e_i = 0 /\ e_data = 0
    /\ ibf = 0 /\ obf = 0 /\ outs = <<>> /\ polls = 0 /\ e_ret = EXIT_SUCCESS
    /\ e_result = 0

AdjInit ==
    /\ AdjIdle
    /\ cpu_temp \in Temps /\ gpu_temp \in GpuTemps /\ fan_duty \in Duties
    /\ next_duty = 0
    /\ apc = "sample" /\ settled = 0 /\ scn = 0

AdjFrame ==
    UNCHANGED <<exit, fan_rpms, auto_duty, auto_duty_val, manual_next_fan_duty,
                manual_prev_fan_duty, wpc, new_fan_duty, cyc, hw_log,
                uiVars, ecVars, convVars>>

AdjSampleCpu ==
    /\ apc = "sample"
    /\ \E t \in Temps :
          /\ cpu_temp' = t
          /\ settled' = IF MAX(t, gpu_temp) = MAX(cpu_temp, gpu_temp)
                         THEN settled ELSE 0
          /\ scn' = ScnNext(MAX(t, gpu_temp))
    /\ apc' = "call"
    /\ UNCHANGED <<gpu_temp, fan_duty, next_duty>>
    /\ AdjFrame

AdjSampleGpu ==
    /\ apc = "sample"
    /\ \E t \in GpuTemps :
          /\ gpu_temp' = t
          /\ settled' = IF MAX(cpu_temp, t) = MAX(cpu_temp, gpu_temp)
                         THEN settled ELSE 0
          /\ scn' = ScnNext(MAX(cpu_temp, t))
    /\ apc' = "call"
    /\ UNCHANGED <<cpu_temp, fan_duty, next_duty>>
    /\ AdjFrame

AdjCall ==
    /\ apc = "call"
    /\ next_duty' = ec_auto_duty_adjust
    /\ apc' = "apply"
    /\ UNCHANGED <<cpu_temp, gpu_temp, fan_duty, settled, scn>>
    /\ AdjFrame

AdjApply ==
    /\ apc = "apply"
    /\ fan_duty' = IF next_duty # 0 THEN next_duty ELSE fan_duty
    /\ settled' = IF next_duty # 0 THEN 1
                   ELSE IF settled > 0 /\ settled < MaxRepeat THEN settled + 1
                   ELSE settled
    /\ apc' = "sample"
    /\ UNCHANGED <<cpu_temp, gpu_temp, next_duty, scn>>
    /\ AdjFrame

AdjNext == AdjSampleCpu \/ AdjSampleGpu \/ AdjCall \/ AdjApply

AdjustSpec == AdjInit /\ [][AdjNext]_vars

(***************************************************************************)
(* EcSpec: ec_write_fan_duty and ec_io_read called with every argument,    *)
(* against a controller that takes a written byte (clearing IBF) and       *)
(* answers a read (setting OBF) whenever it likes, or never.               *)
(***************************************************************************)
WriteArgs == MinArg..MaxArg
ReadPorts == {EC_REG_CPU_TEMP, EC_REG_FAN_DUTY}
DataBytes == {0, 45, 204}

EcInit ==
    /\ exit = 0 /\ cpu_temp = 0 /\ gpu_temp = 0 /\ fan_duty = 0 /\ fan_rpms = 0
    /\ auto_duty = 1 /\ auto_duty_val = 0
    /\ manual_next_fan_duty = 0 /\ manual_prev_fan_duty = 0
    /\ wpc = "off" /\ new_fan_duty = 0 /\ next_duty = 0 /\ cyc = NoCycle
    /\ ui_pc = "off" /\ ui_arg = 0 /\ hw_log = NoWrite /\ conv = NoConv
    /\ apc = "off" /\ settled = 0 /\ scn = 0
    /\ e_op = NoOp /\ e_pc = "idle" /\ e_step = 0 /\ e_i = 0 /\ e_data = 0
    /\ ibf \in {0, 1} /\ obf = 0 /\ outs = <<>> /\ polls = 0
    /\ e_ret = EXIT_SUCCESS /\ e_result = 0

EcFrame == UNCHANGED <<shareVars, workerVars, uiVars, adjVars, convVars>>

CurStep == e_op.steps[e_step]

\* Entering an operation: a rejected duty returns EXIT_FAILURE at once
\* (lines 504-508), anything else starts its first port step.
EcEnter(fn, arg, steps) ==
    /\ e_op' = [fn |-> fn, arg |-> arg, steps |-> steps]
    /\ outs' = <<>> /\ polls' = 0 /\ e_i' = 0
    /\ IF steps = <<>>
       THEN e_pc' = "done" /\ e_step' = 0 /\ e_result' = EXIT_FAILURE
       ELSE e_pc' = "step" /\ e_step' = 1 /\ e_result' = e_result
    /\ UNCHANGED <<e_data, ibf, obf, e_ret>>

EcCallWrite ==
    /\ e_pc = "idle"
    /\ \E p \in WriteArgs : EcEnter("ec_write_fan_duty", p, ec_write_fan_duty(p))
    /\ EcFrame

EcCallRead ==
    /\ e_pc = "idle"
    /\ \E port \in ReadPorts : EcEnter("ec_io_read", port, ec_io_read(port))
    /\ EcFrame

\* ec_io_wait (lines 514-531).  The loop test of line 519:
\* (((data >> flag) & 0x1) != value) && (i++ < 100).
WaitMismatch == Bit(e_data, CurStep.flag) # CurStep.value
\* A loop test without the iteration limit (variant of WaitContinues).
WaitContinuesUnbounded == WaitMismatch
WaitContinues == WaitMismatch /\ e_i < WaitLimit

\* line 517-518: data = inb(port); i = 0
EcWaitEnter ==
    /\ e_pc = "step" /\ CurStep.kind = "wait"
    /\ e_data' = Status /\ e_i' = 0 /\ polls' = 1
    /\ e_pc' = "poll"
    /\ UNCHANGED <<e_op, e_step, ibf, obf, outs, e_ret, e_result>>
    /\ EcFrame

\* lines 519-523: the test passes, i is incremented, usleep, data = inb(port)
EcWaitPoll ==
    /\ e_pc = "poll" /\ WaitContinues
    /\ e_i' = e_i + 1
    /\ e_data' = Status /\ polls' = polls + 1
    /\ UNCHANGED <<e_op, e_pc, e_step, ibf, obf, outs, e_ret, e_result>>
    /\ EcFrame

\* lines 519, 524-530: the test fails (i++ is evaluated only when the flag
\* mismatches), then i >= 100 decides the result.  The wait's caller goes on
\* to its next step whatever the result; ec_io_do returns its last wait's.
EcWaitReturn ==
    /\ e_pc = "poll" /\ ~WaitContinues
    /\ e_i' = IF WaitMismatch THEN e_i + 1 ELSE e_i
    /\ e_ret' = IF e_i' >= WaitLimit THEN EXIT_FAILURE ELSE EXIT_SUCCESS
    /\ IF e_step = Len(e_op.steps)
       THEN e_pc' = "done" /\ e_step' = e_step /\ e_result' = e_ret'
       ELSE e_pc' = "step" /\ e_step' = e_step + 1 /\ e_result' = e_result
    /\ UNCHANGED <<e_op, e_data, ibf, obf, outs, polls>>
    /\ EcFrame

\* outb(value, port): the written byte fills the EC's input buffer.
EcOutb ==
    /\ e_pc = "step" /\ CurStep.kind = "outb"
    /\ outs' = Append(outs, <<CurStep.port, CurStep.value>>)
    /\ ibf' = 1
    /\ e_step' = e_step + 1
    /\ UNCHANGED <<e_op, e_pc, e_i, e_data, obf, polls, e_ret, e_result>>
    /\ EcFrame

\* line 543-545: value = inb(EC_DATA); return value
EcInb ==
    /\ e_pc = "step" /\ CurStep.kind = "inb"
    /\ \E b \in DataBytes : e_result' = b
    /\ obf' = 0
    /\ e_pc' = "done"
    /\ UNCHANGED <<e_op, e_step, e_i, e_data, ibf, outs, polls, e_ret>>
    /\ EcFrame

EcReturn ==
    /\ e_pc = "done"
    /\ e_pc' = "idle"
    /\ UNCHANGED <<e_op, e_step, e_i, e_data, ibf, obf, outs, polls, e_ret,
                   e_result>>
    /\ EcFrame

\* The controller takes the byte in its input buffer.
EcConsume ==
    /\ e_pc \in {"step", "poll"} /\ ibf = 1
    /\ ibf' = 0
    /\ UNCHANGED <<e_op, e_pc, e_step, e_i, e_data, obf, outs, polls, e_ret,
                   e_result>>
    /\ EcFrame

\* The controller answers a read whose address byte it has taken.
EcProduce ==
    /\ e_pc \in {"step", "poll"} /\ e_op.fn = "ec_io_read"
    /\ Len(outs) = 2 /\ ibf = 0 /\ obf = 0
    /\ obf' = 1
    /\ UNCHANGED <<e_op, e_pc, e_step, e_i, e_data, ibf, outs, polls, e_ret,
                   e_result>>
    /\ EcFrame

EcNext ==
    \/ EcCallWrite \/ EcCallRead
    \/ EcWaitEnter \/ EcWaitPoll \/ EcWaitReturn
    \/ EcOutb \/ EcInb \/ EcReturn
    \/ EcConsume \/ EcProduce

EcSpec == EcInit /\ [][EcNext]_vars

\* The steps of the calling process, as opposed to those of the controller.
EcCallerNext ==
    \/ EcCallWrite \/ EcCallRead
    \/ EcWaitEnter \/ EcWaitPoll \/ EcWaitReturn
    \/ EcOutb \/ EcInb \/ EcReturn

\* The calling process keeps running (usleep returns); nothing is assumed of
\* the controller, which may never consume or produce a byte.
EcFairSpec == EcSpec /\ WF_vars(EcCallerNext)

(***************************************************************************)
(* Spec: main_ec_worker interleaved with the indicator process, which      *)
(* runs ui_command_set_fan (two separate stores) and sets the exit flag,   *)
(* and with the termination signals.  ec_write_fan_duty is taken as one    *)
(* step: the worker discards its result, and no share_info field is read   *)
(* or written during the handshake.                                        *)
(***************************************************************************)
\* Menu entries of the indicator (lines 117-123): 0 is "Set FAN to AUTO".
MenuOptions == {0, 60, 70, 90}
\* Register files the sysfs read may return: the bytes at EC_REG_CPU_TEMP,
\* EC_REG_GPU_TEMP, EC_REG_FAN_DUTY, EC_REG_FAN_RPMS_HI and EC_REG_FAN_RPMS_LO.
Snapshots ==
    { [cpu |-> 45, gpu |-> 50, duty |-> 204, rpm_hi |-> 2, rpm_lo |-> 80],
      [cpu |-> 32, gpu |-> 0, duty |-> 153, rpm_hi |-> 0, rpm_lo |-> 0],
      [cpu |-> 72, gpu |-> 50, duty |-> 178, rpm_hi |-> 2, rpm_lo |-> 80],
      [cpu |-> 65, gpu |-> 0, duty |-> 204, rpm_hi |-> 2, rpm_lo |-> 80],
      [cpu |-> 20, gpu |-> 0, duty |-> 127, rpm_hi |-> 0, rpm_lo |-> 0] }
\* What read () may return: an error, the whole register file, a short read.
ReadLens == {-1, 256, 128}

\* main_init_share (lines 234-248)
main_init_share ==
    /\ exit = 0 /\ cpu_temp = 0 /\ gpu_temp = 0 /\ fan_duty = 0 /\ fan_rpms = 0
    /\ auto_duty = 1 /\ auto_duty_val = 0
    /\ manual_next_fan_duty = 0 /\ manual_prev_fan_duty = 0

Init ==
    /\ main_init_share
    /\ wpc = "loop" /\ new_fan_duty = 0 /\ next_duty = 0 /\ cyc = NoCycle
    /\ hw_log = NoWrite /\ conv = NoConv
    /\ ui_pc = "idle" /\ ui_arg = 0
    /\ apc = "off" /\ settled = 0 /\ scn = 0
    /\ e_op = NoOp /\ e_pc = "off" /\ e_step = 0 /\ e_i = 0 /\ e_data = 0
    /\ ibf = 0 /\ obf = 0 /\ outs = <<>> /\ polls = 0 /\ e_ret = EXIT_SUCCESS
    /\ e_result = 0

WorkerFrame == UNCHANGED <<uiVars, adjVars, ecVars, convVars>>
WorkerAlive == wpc \notin {"returned", "exited"}

\* The write handshake ec_write_fan_duty issues for a duty: its outb steps.
PortWrites(duty) ==
    SelectSeq(ec_write_fan_duty(duty), LAMBDA st : st.kind = "outb")

\* hw_log after ec_write_fan_duty(duty): unchanged when the duty is rejected.
FanWrite(duty, by) ==
    IF PortWrites(duty) = <<>>
    THEN hw_log
    ELSE [by |-> by, duty |-> duty,
          raw |-> PortWrites(duty)[Len(PortWrites(duty))].value]

\* A loop test that never sees the exit flag (variant of LoopContinues).
LoopIgnoresExit == TRUE

\* line 254: while (share_info->exit == 0); lines 310-311 after the loop
LoopContinues == exit = 0

WorkerLoop ==
    /\ wpc = "loop"
    /\ wpc' = IF LoopContinues THEN "w_manual" ELSE "returned"
    /\ UNCHANGED <<shareVars, new_fan_duty, next_duty, cyc, hw_log>>
    /\ WorkerFrame

\* A pending test that only sees a raised duty (variant of ManualPending).
ManualPendingIfHigher(duty) == duty # 0 /\ duty > manual_prev_fan_duty

\* lines 256-263: the pending manual duty
ManualPending(duty) == duty # 0 /\ duty # manual_prev_fan_duty

WorkerManual ==
    /\ wpc = "w_manual"
    /\ new_fan_duty' = manual_next_fan_duty
    /\ IF ManualPending(manual_next_fan_duty)
       THEN /\ hw_log' = FanWrite(manual_next_fan_duty, "manual")
            /\ manual_prev_fan_duty' = manual_next_fan_duty
       ELSE UNCHANGED <<hw_log, manual_prev_fan_duty>>
    /\ cyc' = [NoCycle EXCEPT
                 !.pre = /\ auto_duty = 0
                         /\ manual_next_fan_duty # 0
                         /\ manual_next_fan_duty # manual_prev_fan_duty,
                 !.mhw = IF /\ ManualPending(manual_next_fan_duty)
                            /\ PortWrites(manual_next_fan_duty) # <<>>
                         THEN manual_next_fan_duty ELSE 0]
    /\ wpc' = "w_open"
    /\ UNCHANGED <<exit, cpu_temp, gpu_temp, fan_duty, fan_rpms, auto_duty,
                   auto_duty_val, manual_next_fan_duty, next_duty>>
    /\ WorkerFrame

\* lines 265-270: open the register file; exit (EXIT_FAILURE) when it fails
WorkerOpen ==
    /\ wpc = "w_open"
    /\ \E io_fd \in {-1, 3} :
          wpc' = IF io_fd < 0 THEN "exited" ELSE "w_read"
    /\ UNCHANGED <<shareVars, new_fan_duty, next_duty, cyc, hw_log>>
    /\ WorkerFrame

\* A switch that takes any positive length for the register file (variant of
\* WellFormed).
WellFormedIfPositive(len) == len > 0

\* line 278: case 0x100
WellFormed(len) == len = 256

\* lines 271-292: read the register file and publish the readings; cyc.len and
\* cyc.buf are the locals len and buf (buf is only looked at after a full read)
WorkerRead ==
    /\ wpc = "w_read"
    /\ \E len \in ReadLens :
          IF WellFormed(len)
          THEN \E buf \in Snapshots :
                  /\ cpu_temp' = buf.cpu
                  /\ gpu_temp' = buf.gpu
                  /\ fan_duty' = calculate_fan_duty(buf.duty)
                  /\ fan_rpms' = calculate_fan_rpms(buf.rpm_hi, buf.rpm_lo)
                  /\ cyc' = [cyc EXCEPT !.len = len, !.buf = buf]
          ELSE /\ UNCHANGED <<cpu_temp, gpu_temp, fan_duty, fan_rpms>>
               /\ cyc' = [cyc EXCEPT !.len = len]
    /\ wpc' = "w_auto"
    /\ UNCHANGED <<exit, auto_duty, auto_duty_val, manual_next_fan_duty,
                   manual_prev_fan_duty, new_fan_duty, next_duty, hw_log>>
    /\ WorkerFrame

\* line 294: if (share_info->auto_duty == 1)
AutoMode == auto_duty = 1

WorkerAutoTest ==
    /\ wpc = "w_auto"
    /\ cyc' = [cyc EXCEPT !.mode = auto_duty]
    /\ wpc' = IF AutoMode THEN "w_adjust" ELSE "w_sleep"
    /\ UNCHANGED <<shareVars, new_fan_duty, next_duty, hw_log>>
    /\ WorkerFrame

\* lines 296-305: the automatic duty
AutoApplies(duty) == duty # 0 /\ duty # auto_duty_val

WorkerAuto ==
    /\ wpc = "w_adjust"
    /\ next_duty' = ec_auto_duty_adjust
    /\ IF AutoApplies(next_duty')
       THEN /\ hw_log' = FanWrite(next_duty', "auto")
            /\ auto_duty_val' = next_duty'
            /\ cyc' = [cyc EXCEPT
                         !.adv0 = auto_duty_val,
                         !.acall = next_duty',
                         !.ahw = IF PortWrites(next_duty') # <<>>
                                 THEN next_duty' ELSE 0]
       ELSE /\ UNCHANGED <<hw_log, auto_duty_val>>
            /\ cyc' = [cyc EXCEPT !.adv0 = auto_duty_val]
    /\ wpc' = "w_sleep"
    /\ UNCHANGED <<exit, cpu_temp, gpu_temp, fan_duty, fan_rpms, auto_duty,
                   manual_next_fan_duty, manual_prev_fan_duty, new_fan_duty>>
    /\ WorkerFrame

\* line 308: usleep (500); the locals of the loop body die with the iteration
WorkerSleep ==
    /\ wpc = "w_sleep"
    /\ wpc' = "loop"
    /\ new_fan_duty' = 0 /\ next_duty' = 0 /\ cyc' = NoCycle
    /\ UNCHANGED <<shareVars, hw_log>>
    /\ WorkerFrame

WorkerNext ==
    \/ WorkerLoop \/ WorkerManual \/ WorkerOpen \/ WorkerRead
    \/ WorkerAutoTest \/ WorkerAuto \/ WorkerSleep

UiFrame == UNCHANGED <<workerVars, adjVars, ecVars, convVars>>

\* ui_command_set_fan (lines 402-418): the first store, lines 408 / 414
UiSetFanMode ==
    /\ ui_pc = "idle"
    /\ \E fan_duty_val \in MenuOptions :
          /\ ui_arg' = fan_duty_val
          /\ auto_duty' = IF fan_duty_val = 0 THEN 1 ELSE 0
    /\ ui_pc' = "set_next"
    /\ UNCHANGED <<exit, cpu_temp, gpu_temp, fan_duty, fan_rpms, auto_duty_val,
                   manual_next_fan_duty, manual_prev_fan_duty>>
    /\ UiFrame

\* the second store, lines 409 / 415
UiSetFanNext ==
    /\ ui_pc = "set_next"
    /\ manual_next_fan_duty' = ui_arg
    /\ ui_pc' = "idle" /\ ui_arg' = 0
    /\ UNCHANGED <<exit, cpu_temp, gpu_temp, fan_duty, fan_rpms, auto_duty,
                   auto_duty_val, manual_prev_fan_duty>>
    /\ UiFrame

\* main, lines 171-173: gtk_main has returned; share_info->exit = 1
UiQuit ==
    /\ ui_pc = "idle"
    /\ exit' = 1
    /\ ui_pc' = "quit"
    /\ UNCHANGED <<cpu_temp, gpu_temp, fan_duty, fan_rpms, auto_duty,
                   auto_duty_val, manual_next_fan_duty, manual_prev_fan_duty,
                   ui_arg>>
    /\ UiFrame

\* main_on_sigterm (lines 362-368): a termination signal in the indicator
\* process, wherever it stands
main_on_sigterm ==
    /\ ui_pc \in {"idle", "set_next"}
    /\ exit' = 1
    /\ ui_pc' = "quit" /\ ui_arg' = 0
    /\ UNCHANGED <<cpu_temp, gpu_temp, fan_duty, fan_rpms, auto_duty,
                   auto_duty_val, manual_next_fan_duty, manual_prev_fan_duty>>
    /\ UiFrame

\* main_on_sigchld (lines 356-360): the worker has ended; the indicator exits
main_on_sigchld ==
    /\ ~WorkerAlive
    /\ ui_pc \in {"idle", "set_next"}
    /\ ui_pc' = "quit" /\ ui_arg' = 0
    /\ UNCHANGED shareVars
    /\ UiFrame

\* A worker handler that also drops the duty command (variant of ec_on_sigterm).
SigtermDropsCommand ==
    /\ WorkerAlive
    /\ exit' = 1
    /\ manual_next_fan_duty' = 0
    /\ UNCHANGED <<cpu_temp, gpu_temp, fan_duty, fan_rpms, auto_duty,
                   auto_duty_val, manual_prev_fan_duty>>
    /\ UNCHANGED <<workerVars, uiVars, adjVars, ecVars, convVars>>

\* ec_on_sigterm (lines 451-456): a termination signal in the worker
ec_on_sigterm ==
    /\ WorkerAlive
    /\ exit' = 1
    /\ UNCHANGED <<cpu_temp, gpu_temp, fan_duty, fan_rpms, auto_duty,
                   auto_duty_val, manual_next_fan_duty, manual_prev_fan_duty>>
    /\ UNCHANGED <<workerVars, uiVars, adjVars, ecVars, convVars>>

Next ==
    \/ WorkerNext
    \/ UiSetFanMode \/ UiSetFanNext \/ UiQuit
    \/ main_on_sigterm \/ main_on_sigchld \/ ec_on_sigterm

Spec == Init /\ [][Next]_vars

\* The worker process is scheduled: whenever it can step, it eventually does.
FairSpec == Spec /\ WF_vars(WorkerNext)

(***************************************************************************)
(* ConvSpec: the conversions between register bytes and published values,  *)
(* each applied once to arguments drawn from its whole domain.             *)
(*   job "duty": calculate_fan_duty on the bytes a and b;                  *)
(*   job "rpms": calculate_fan_rpms on the count (a, b) and on the count   *)
(*               one above it;                                             *)
(*   job "trip": ec_write_fan_duty (a), then calculate_fan_duty on the     *)
(*               byte it sent to the fan-duty register.                    *)
(***************************************************************************)
\* unsigned char (the register file of line 271, the parameters of ec_io_do)
Bytes == 0..255

ConvInit ==
    /\ main_init_share
    /\ wpc = "off" /\ new_fan_duty = 0 /\ next_duty = 0 /\ cyc = NoCycle
    /\ ui_pc = "off" /\ ui_arg = 0 /\ hw_log = NoWrite
    /\ apc = "off" /\ settled = 0 /\ scn = 0
    /\ e_op = NoOp /\ e_pc = "off" /\ e_step = 0 /\ e_i = 0 /\ e_data = 0
    /\ ibf = 0 /\ obf = 0 /\ outs = <<>> /\ polls = 0 /\ e_ret = EXIT_SUCCESS
    /\ e_result = 0
    /\ \/ conv \in [job : {"duty"}, pc : {"in"}, a : Bytes, b : Bytes,
                    out : {0}, nxt : {0}]
       \/ conv \in [job : {"rpms"}, pc : {"in"}, a : Bytes, b : Bytes,
                    out : {0}, nxt : {0}]
       \/ conv \in [job : {"trip"}, pc : {"in"}, a : WriteArgs, b : {0},
                    out : {0}, nxt : {0}]

ConvFrame == UNCHANGED <<shareVars, workerVars, uiVars, adjVars, ecVars>>

\* lines 281 and 563-566
ConvDuty ==
    /\ conv.job = "duty" /\ conv.pc = "in"
    /\ conv' = [conv EXCEPT !.pc = "done",
                            !.out = calculate_fan_duty(conv.a),
                            !.nxt = calculate_fan_duty(conv.b)]
    /\ ConvFrame

\* The 16-bit count after (hi, lo); the largest count has none.
NextCount(hi, lo) ==
    IF lo < 255 THEN <<hi, lo + 1>>
    ELSE IF hi < 255 THEN <<hi + 1, 0>> ELSE <<hi, lo>>

\* lines 282-283 and 568-572
ConvRpms ==
    /\ conv.job = "rpms" /\ conv.pc = "in"
    /\ conv' = [conv EXCEPT
                  !.pc = "done",
                  !.out = calculate_fan_rpms(conv.a, conv.b),
                  !.nxt = calculate_fan_rpms(NextCount(conv.a, conv.b)[1],
                                             NextCount(conv.a, conv.b)[2])]
    /\ ConvFrame

\* ec_write_fan_duty (lines 502-512): the byte sent to the fan-duty register,
\* or nothing when the duty is rejected
ConvWrite ==
    /\ conv.job = "trip" /\ conv.pc = "in"
    /\ conv' = IF PortWrites(conv.a) = <<>>
               THEN [conv EXCEPT !.pc = "rejected"]
               ELSE [conv EXCEPT
                       !.pc = "written",
                       !.out = PortWrites(conv.a)[Len(PortWrites(conv.a))].value]
    /\ ConvFrame

\* line 281: the worker publishes the register's byte as a percentage
ConvReadBack ==
    /\ conv.job = "trip" /\ conv.pc = "written"
    /\ conv' = [conv EXCEPT !.pc = "done", !.nxt = calculate_fan_duty(conv.out)]
    /\ ConvFrame

ConvNext == ConvDuty \/ ConvRpms \/ ConvWrite \/ ConvReadBack

ConvSpec == ConvInit /\ [][ConvNext]_vars

(***************************************************************************)
(* The controller's stage table as the claims state it, examined top-down. *)
(***************************************************************************)
StageT == <<80, 70, 60, 50, 40, 30>>
StageD == <<100, 90, 80, 70, 60, 50>>
Stages == 1..6

EffTemp == MAX(cpu_temp, gpu_temp)
Escalates(k) == EffTemp >= StageT[k] /\ fan_duty < StageD[k]
FirstEscalating(k) == Escalates(k) /\ \A j \in 1..(k - 1) : ~Escalates(j)
InBand(k) == StageT[k] <= EffTemp /\ EffTemp <= StageT[k] + 5
HighestReached(k) ==
    EffTemp >= StageT[k] /\ \A j \in 1..(k - 1) : EffTemp < StageT[j]
\* In the state after AdjCall the readings are those the call was made on.
Called == apc = "apply"

\* C1: if (T,D) is the first stage, top-down, with temp >= T and duty < D,
\* ec_auto_duty_adjust returns exactly D.
C1_EscalatesToFirstStage ==
    Called => \A k \in Stages : FirstEscalating(k) => next_duty = StageD[k]

C1_Witness ==
    Called /\ FirstEscalating(2) /\ EffTemp = 70 /\ fan_duty = 85 /\ next_duty = 90

\* C2 as stated: with the temperature between a stage's escalation threshold T
\* and T+5 and the duty at or above the stage's duty D, the controller returns
\* "no change".
C2_DeadBandNoChange ==
    Called => \A k \in Stages : (InBand(k) /\ fan_duty >= StageD[k]) => next_duty = 0

\* C2 amended: with T <= temp <= T+5, a duty equal to D gives "no change", and
\* a duty above D (up to 100) is released down to D.
C2_DeadBandHoldOrRelease ==
    Called =>
        \A k \in Stages :
            InBand(k) =>
                /\ fan_duty = StageD[k] => next_duty = 0
                /\ (fan_duty > StageD[k] /\ fan_duty <= 100) => next_duty = StageD[k]

C2_Witness ==
    Called /\ InBand(2) /\ EffTemp = 72 /\ fan_duty = 100 /\ next_duty = 90

\* C3: a returned new duty is never lower than the duty D of the highest stage
\* boundary T <= temp; and along the samples 30, 65, 75, 65, 55 from duty 50,
\* once the first 65 sample has been applied the duty is not below 80 until
\* the 55 sample.
C3_NoDropBelowStage ==
    /\ (Called /\ next_duty # 0) =>
           \E k \in Stages : HighestReached(k) /\ next_duty >= StageD[k]
    /\ (apc = "sample" /\ scn \in 2..4) => fan_duty >= 80

C3_Witness ==
    Called /\ scn = 4 /\ EffTemp = 65 /\ fan_duty = 90 /\ next_duty = 80

\* C4: after ec_auto_duty_adjust returned a new duty d, every further call with
\* the same temperature and current duty d returns "no change".
C4_Idempotent ==
    (Called /\ settled >= 1) => next_duty = 0

C4_Witness ==
    Called /\ settled = 2 /\ EffTemp = 72 /\ fan_duty = 90 /\ next_duty = 0

(***************************************************************************)
(* Claims about the port transport (EcSpec).                               *)
(***************************************************************************)
WriteDone == e_pc = "done" /\ e_op.fn = "ec_write_fan_duty"

C9_NoWriteWhileIbf ==
    [][Len(outs') > Len(outs) => ibf = 0]_vars

\* The state after ec_io_wait returned: its caller stands at the step after
\* the wait, or has returned the wait's result.
WaitedStep ==
    IF e_pc = "step" /\ e_step > 1 /\ e_op.steps[e_step - 1].kind = "wait"
    THEN e_step - 1
    ELSE IF e_pc = "done" /\ e_step >= 1 /\ e_op.steps[e_step].kind = "wait"
    THEN e_step
    ELSE 0

\* C10: ec_io_wait returns success if and only if one of its polls observed
\* the flag equal to the expected value (a poll that does ends the loop, so it
\* is the last one).
C10_SuccessIffObserved ==
    WaitedStep # 0 =>
        (e_ret = EXIT_SUCCESS
            <=> Bit(e_data, e_op.steps[WaitedStep].flag)
                    = e_op.steps[WaitedStep].value)

(***************************************************************************)
(* Claims about the worker loop (Spec, FairSpec).  cyc records, for the    *)
(* cycle in progress: pre, whether at the read of line 257 the mode was    *)
(* MANUAL with a target differing from manual_prev_fan_duty; mhw and ahw,  *)
(* the duty whose write handshake the manual and the automatic path        *)
(* issued (0: none); acall, the duty the automatic path passed to          *)
(* ec_write_fan_duty; mode, auto_duty as read at line 294; adv0,           *)
(* auto_duty_val before line 297.                                          *)
(***************************************************************************)
CycleDone == wpc = "w_sleep"

C6_AutoValWritten ==
    (CycleDone /\ cyc.mode = 1 /\ next_duty # 0 /\ next_duty # cyc.adv0) =>
        /\ cyc.ahw = next_duty
        /\ hw_log.by = "auto" /\ hw_log.duty = next_duty
        /\ auto_duty_val = next_duty

\* C8 as stated: once the exit flag is set the worker starts no new loop
\* iteration, writes nothing to the hardware after it has seen the flag at the
\* top of the loop, and eventually returns.
WorkerStoppedAfterExit ==
    /\ [][exit = 1 => ~(wpc = "loop" /\ wpc' = "w_manual")]_vars
    /\ [][wpc = "returned" => (wpc' = "returned" /\ hw_log' = hw_log)]_vars

C8_CooperativeShutdown ==
    /\ WorkerStoppedAfterExit
    /\ (exit = 1) ~> (wpc = "returned")

\* C8 amended: ... and eventually returns, or has left through
\* exit (EXIT_FAILURE) at line 269 because the register file could not be opened.
C8_CooperativeShutdownOrExit ==
    /\ WorkerStoppedAfterExit
    /\ (exit = 1) ~> (wpc \in {"returned", "exited"})

C8_Witness ==
    wpc = "returned" /\ exit = 1 /\ ui_pc = "quit" /\ hw_log.by = "auto"

(***************************************************************************)
(* Who writes which field of share_info.  A step of the indicator process  *)
(* moves ui_pc, a step of the worker loop moves wpc; a step that moves     *)
(* neither and still changes a field is the worker's signal handler.       *)
(***************************************************************************)
WorkerFields ==
    <<cpu_temp, gpu_temp, fan_duty, fan_rpms, auto_duty_val,
      manual_prev_fan_duty>>
WorkerLoopStep == wpc' # wpc /\ ui_pc' = ui_pc
IndicatorStep == ui_pc' # ui_pc /\ wpc' = wpc
SetFanStep ==
    \/ ui_pc = "idle" /\ ui_pc' = "set_next"
    \/ ui_pc = "set_next" /\ ui_pc' = "idle"
WorkerHandlerStep == wpc' = wpc /\ ui_pc' = ui_pc /\ WorkerAlive

\* C11 as stated: the readings, auto_duty_val and manual_prev_fan_duty are
\* written only by the worker; exit, auto_duty and manual_next_fan_duty are
\* written only by the indicator process, the last two only by
\* ui_command_set_fan.
C11_SingleWriter ==
    [][ /\ WorkerFields' # WorkerFields => WorkerLoopStep
        /\ (auto_duty' # auto_duty
               \/ manual_next_fan_duty' # manual_next_fan_duty)
              => (IndicatorStep /\ SetFanStep)
        /\ exit' # exit => IndicatorStep ]_vars

\* C11 amended: ... auto_duty and manual_next_fan_duty are written only by
\* ui_command_set_fan in the indicator process; the exit flag is only ever
\* set to 1, by the indicator process or by the worker's own termination
\* handler ec_on_sigterm, never by the worker loop.
C11_SingleWriterButExit ==
    [][ /\ WorkerFields' # WorkerFields => WorkerLoopStep
        /\ (auto_duty' # auto_duty
               \/ manual_next_fan_duty' # manual_next_fan_duty)
              => (IndicatorStep /\ SetFanStep)
        /\ exit' # exit
              => (exit' = 1 /\ (IndicatorStep \/ WorkerHandlerStep)) ]_vars

\* The exit flag is set while the indicator has neither quit nor been
\* signalled: the worker's handler has set it.
C11_Witness ==
    /\ exit = 1 /\ ui_pc = "idle" /\ WorkerAlive
    /\ auto_duty = 0 /\ manual_next_fan_duty = 70 /\ manual_prev_fan_duty = 70

(***************************************************************************)
(* Claims about the readings the worker publishes.                         *)
(***************************************************************************)
\* The register file of the end-to-end scenario: rpm_hi = 0x02, rpm_lo = 0x50.
ScenarioFile == [cpu |-> 45, gpu |-> 50, duty |-> 204, rpm_hi |-> 2, rpm_lo |-> 80]
ReadScenarioFile == cyc.len = 256 /\ cyc.buf = ScenarioFile
Published == wpc \in {"w_auto", "w_adjust", "w_sleep"}

\* C12 as stated: a cycle that reads the scenario's register file publishes
\* cpu_temp = 45, gpu_temp = 50, fan_duty = 80 and fan_rpms = 3643, and in AUTO
\* mode the controller returns 70.
C12_EndToEnd ==
    /\ (Published /\ ReadScenarioFile) =>
           cpu_temp = 45 /\ gpu_temp = 50 /\ fan_duty = 80 /\ fan_rpms = 3643
    /\ (CycleDone /\ ReadScenarioFile /\ cyc.mode = 1) => next_duty = 70

\* C12 amended: ... publishes fan_rpms = 3642, the truncated quotient
\* 2156220 div 592.
C12_EndToEndTruncated ==
    /\ (Published /\ ReadScenarioFile) =>
           cpu_temp = 45 /\ gpu_temp = 50 /\ fan_duty = 80 /\ fan_rpms = 3642
    /\ (CycleDone /\ ReadScenarioFile /\ cyc.mode = 1) => next_duty = 70

C12_Witness ==
    /\ CycleDone /\ ReadScenarioFile /\ cyc.mode = 1
    /\ fan_rpms = 3642 /\ next_duty = 70 /\ hw_log.by = "auto" /\ hw_log.duty = 70

(***************************************************************************)
(* Claims about the conversions (ConvSpec).                                *)
(***************************************************************************)
ConvDone(job) == conv.job = job /\ conv.pc = "done"

\* C13: for every raw duty byte b in 0..255, calculate_fan_duty (b) is
\* floor (b * 100 / 255), lies in 0..100, and is non-decreasing in b.
C13_DutyFloorMonotone ==
    ConvDone("duty") =>
        /\ 255 * conv.out <= 100 * conv.a
        /\ 100 * conv.a < 255 * (conv.out + 1)
        /\ conv.out \in 0..100
        /\ conv.a <= conv.b => conv.out <= conv.nxt

C13_Witness ==
    /\ ConvDone("duty") /\ conv.a = 178 /\ conv.b = 179
    /\ conv.out = 69 /\ conv.nxt = 70

\* C14: for every pair of bytes (hi, lo) with count r = (hi << 8) | lo,
\* calculate_fan_rpms returns 0 when r = 0 and 2156220 div r otherwise (the
\* guard keeps it from dividing by zero), and the result does not increase
\* from a count r > 0 to the count r + 1.
C14_RpmsQuotientMonotone ==
    ConvDone("rpms") =>
        LET r == conv.a * 256 + conv.b
        IN  /\ r = 0 => conv.out = 0
            /\ r > 0 => /\ conv.out * r <= 2156220
                        /\ 2156220 < (conv.out + 1) * r
                        /\ conv.nxt <= conv.out

C14_Witness ==
    /\ ConvDone("rpms") /\ conv.a = 2 /\ conv.b = 80
    /\ conv.out = 3642 /\ conv.nxt = 3636

(***************************************************************************)
(* Termination of the handshakes (EcFairSpec).                             *)
(***************************************************************************)
InHandshake == e_pc \in {"step", "poll"}

\* C15: whatever the controller does, and also when its flags never change,
\* ec_io_wait re-polls at most 100 times (polls counts the first inb too), so
\* ec_io_read (3 waits) and ec_io_do (4 waits) go through their steps and
\* return to their caller.
C15_BoundedHandshake ==
    /\ [](InHandshake => (polls <= WaitLimit + 1 /\ e_step <= Len(e_op.steps)))
    /\ [](e_op.fn = "ec_io_read" =>
             Len(SelectSeq(e_op.steps, LAMBDA st : st.kind = "wait")) = 3)
    /\ [](WriteDone /\ outs # <<>> =>
             Len(SelectSeq(e_op.steps, LAMBDA st : st.kind = "wait")) = 4)
    /\ InHandshake ~> (e_pc = "done")

\* The last wait of a write handshake has given up on a controller that never
\* took a byte, after the first poll and 100 more.
C15_Witness ==
    /\ WriteDone /\ e_result = EXIT_FAILURE /\ polls = WaitLimit + 1
    /\ ibf = 1 /\ Len(outs) = 3

\* C16: in a cycle whose read of the register file returns -1 or a length
\* other than 0x100, cpu_temp, gpu_temp, fan_duty and fan_rpms keep their
\* values; they change only in a read step that returned 0x100, so they are
\* those of the last well-formed cycle.
Readings == <<cpu_temp, gpu_temp, fan_duty, fan_rpms>>
ReadStep == wpc = "w_read" /\ wpc' = "w_auto"

C16_FailedReadKeepsReadings ==
    [][ /\ (ReadStep /\ cyc'.len # 256) => Readings' = Readings
        /\ Readings' # Readings => (ReadStep /\ cyc'.len = 256) ]_vars

\* After a well-formed cycle, a short read has left the readings in place.
C16_Witness ==
    /\ wpc = "w_auto" /\ cyc.len = 128
    /\ Readings = <<45, 50, 80, 3642>>

\* C17: whenever a cycle in AUTO mode gets a duty d in 60..100 from
\* ec_auto_duty_adjust and skips the write because d = auto_duty_val, the
\* duty written last to the fan-duty register, by either path, is d.
C17_SkippedAutoWriteRedundant ==
    (CycleDone /\ cyc.mode = 1 /\ next_duty \in 60..100 /\ next_duty = cyc.adv0)
        => hw_log.duty = next_duty

\* C18: once the mode is MANUAL with a target t in 60..100, no command is in
\* progress, and the worker has completed a cycle that read t at line 257 and
\* saw MANUAL at line 294, the duty written last to the fan-duty register is t.
C18_ManualTakesEffect ==
    ( /\ CycleDone /\ ui_pc = "idle"
      /\ auto_duty = 0 /\ cyc.mode = 0
      /\ manual_next_fan_duty \in 60..100
      /\ new_fan_duty = manual_next_fan_duty )
        => hw_log.duty = manual_next_fan_duty

\* C19: under every interleaving of ui_command_set_fan's two stores with the
\* worker, the worker issues a manual write only while auto_duty = 0, and an
\* automatic write only while manual_next_fan_duty = 0.
C19_WritesAgreeWithMode ==
    [][ /\ (wpc = "w_manual" /\ cyc'.mhw # 0) => auto_duty = 0
        /\ (wpc = "w_adjust" /\ cyc'.ahw # 0) => manual_next_fan_duty = 0 ]_vars

\* C20: for every duty p in 60..100, the byte ec_write_fan_duty (p) sends to
\* the fan-duty register, converted back by calculate_fan_duty, is p again.
C20_RoundTrip ==
    (ConvDone("trip") /\ conv.a \in 60..100) => conv.nxt = conv.a

====
